---- MODULE Spec2Model ----
(***************************************************************************)
(* A model of pycsvdiff.py: the index-based sequence differ                *)
(* (diff_seq_by_index), the Table and TableDiffer classes, the diff_rows   *)
(* generator and the pprint_diff orchestration run by main.                *)
(*                                                                         *)
(* Python sequences are modelled as TLA+ sequences; Python positions are   *)
(* 0-based, so position i of a Python sequence s is s[i + 1] here.         *)
(***************************************************************************)
EXTENDS Integers, Sequences, FiniteSets, TLC

(***************************************************************************)
(* Bounds of the model.                                                    *)
(***************************************************************************)
MaxPlain == 2   \* longest sequence compared without a mapping
MaxLen == 3     \* longest sequence compared under a hand-written mapping
MaxPairs == 2   \* most pairs in a hand-written mapping
MaxCols == 2    \* most columns of a table
MaxRows == 2    \* most data rows of a row source
MaxLabels == 3  \* most columns of the tables compared with ignore_order

Max(m, n) == IF m >= n THEN m ELSE n
Min(m, n) == IF m <= n THEN m ELSE n

SeqsUpTo(S, n) == UNION {[1..k -> S] : k \in 0..n}

(***************************************************************************)
(* Cell and field values are strings (csv.reader yields strings).          *)
(***************************************************************************)
Plain == {"a", "b"}
Strings == {"", "a", "A", "nil", "NIL"}

\* str.lower() on the strings of the model
Lower(s) ==
    CASE s = "A" -> "a"
      [] s = "B" -> "b"
      [] s = "NIL" -> "nil"
      [] OTHER -> s

(***************************************************************************)
(* nil, the NilType singleton: "value not present".  A value read from a   *)
(* sequence is tagged present; nil is the one value that is not.           *)
(***************************************************************************)
nil == [present |-> FALSE, v |-> ""]
Val(s) == [present |-> TRUE, v |-> s]

\* NilType.__repr__ / __str__, and str() of a string
Str(p) == IF p.present THEN p.v ELSE "nil"

\* a[i] with IndexError turned into nil (i is a 0-based position, i >= 0)
At(s, i) == IF i < Len(s) THEN Val(s[i + 1]) ELSE nil

\* (mutant) the comparator without its ignore_case branch
comparatorExact(ignore_case, p, q) == p = q

\* (mutant) nil equals nothing, itself included
comparatorNoNil(ignore_case, p, q) ==
    /\ p.present
    /\ q.present
    /\ IF ignore_case THEN Lower(p.v) = Lower(q.v) ELSE p.v = q.v

\* TableDiffer._diff_row.comparator; with ignore_case FALSE it is also the
\* default cmp of diff_seq_by_index, lambda p, q: p == q
comparator(ignore_case, p, q) ==
    IF ignore_case THEN Lower(Str(p)) = Lower(Str(q)) ELSE p = q

(***************************************************************************)
(* diff_seq_by_index                                                       *)
(***************************************************************************)
\* (mutant) the pairs are left as given, A to B only
ForwardOnly(mapping) == mapping

\* mapping | set(map(reversed, mapping)): the pairs in both directions
BiDirectional(mapping) == mapping \cup {<<p[2], p[1]>> : p \in mapping}

\* dict(pairs): one value per key.  When two pairs share a key the pair met
\* last in the set's iteration order wins; that order is not fixed by the
\* program, so every choice is a possible dict.
RECURSIVE DictsOver(_, _)
DictsOver(keys, pairs) ==
    IF keys = {} THEN {<<>>}
    ELSE LET k == CHOOSE key \in keys : TRUE
         IN  {(k :> p[2]) @@ d :
                  p \in {q \in pairs : q[1] = k},
                  d \in DictsOver(keys \ {k}, pairs)}

Dicts(pairs) == DictsOver({p[1] : p \in pairs}, pairs)

\* (mutant) the mapping is never consulted
LookupNone(d, i) == i

\* mapping[i] with KeyError turned into i
Lookup(d, i) == IF i \in DOMAIN d THEN d[i] ELSE i

\* (mutant) the loop stops at the end of the shorter sequence
LoopBoundMin(a, b) == Min(Len(a), Len(b))

\* xrange(max(len(a), len(b)))
LoopBound(a, b) == Max(Len(a), Len(b))

\* (mutant) the loop body without "if skip(i): continue"
LoopBodyNoSkip(a, b, ignore_case, d, skip, i) ==
    LET x == At(a, i)
        j == Lookup(d, i)
        y == At(b, j)
    IN  IF ~comparator(ignore_case, x, y) THEN <<  <<i, x, y>>  >> ELSE <<>>

\* one pass of the for loop body at position i: the triples it appends
LoopBody(a, b, ignore_case, d, skip, i) ==
    LET x == At(a, i)
        j == Lookup(d, i)
        y == At(b, j)
    IN  IF i \in skip THEN <<>>
        ELSE IF ~comparator(ignore_case, x, y) THEN <<  <<i, x, y>>  >>
        ELSE <<>>

RECURSIVE Loop(_, _, _, _, _, _)
Loop(a, b, ignore_case, d, skip, i) ==
    IF i >= LoopBound(a, b) THEN <<>>
    ELSE LoopBody(a, b, ignore_case, d, skip, i)
             \o Loop(a, b, ignore_case, d, skip, i + 1)

\* The lists diff_seq_by_index(a, b, cmp, mapping, skip) can return: one per
\* dict the mapping can become.  skip is the set of positions skip(i) holds
\* for; cmp is given by the ignore_case flag of comparator.
diff_seq_by_index(a, b, ignore_case, mapping, skip) ==
    {Loop(a, b, ignore_case, d, skip, 0) : d \in Dicts(BiDirectional(mapping))}

(***************************************************************************)
(* Table                                                                   *)
(***************************************************************************)
Digits == <<"0", "1", "2", "3", "4", "5", "6", "7", "8", "9">>

\* "%i" % i for i >= 0; the model's tables have fewer than ten columns
FormatInt(i) == Digits[i + 1]

\* A row source is [rows, reiterable]: reiterable is TRUE for a list (every
\* iter() starts again at the first row) and FALSE for a single-pass iterator
\* such as csv.reader (iter() is the iterator itself).
\*
\* A Table object is [fields, label_first_row, wrapped, pending, pos]:
\*   wrapped  self.rows is the generator _iter() and not the source itself
\*   pending  the peeked row that _iter() has still to yield
\*   pos      how many rows the iterator that self.rows reads has consumed
NoTable ==
    [fields |-> <<>>, label_first_row |-> FALSE, wrapped |-> FALSE,
     pending |-> <<>>, pos |-> 0]

\* Table.__init__ raises StopIteration: no fields given and nothing to peek
TableRaises(src, fields) == fields = <<>> /\ src.rows = <<>>

\* where the iterator over the source stands after iter(rows).next()
AfterPeek(src) == IF src.reiterable THEN 0 ELSE 1

\* the generator _iter(): the peeked row is put back in front of the stream
PutBack(peek) == <<peek>>

\* Table.__init__ (fields = <<>> stands for None or an empty tuple: both are
\* false in "if fields")
TableInit(src, fields, label_first_row) ==
    IF fields # <<>>
    THEN [fields |-> fields, label_first_row |-> label_first_row,
          wrapped |-> FALSE, pending |-> <<>>, pos |-> 0]
    ELSE LET peek == src.rows[1] IN
         IF label_first_row
         THEN [fields |-> peek, label_first_row |-> TRUE,
               wrapped |-> FALSE, pending |-> <<>>, pos |-> AfterPeek(src)]
         ELSE [fields |-> [k \in 1..Len(peek) |-> FormatInt(k - 1)],
               label_first_row |-> FALSE,
               wrapped |-> TRUE, pending |-> PutBack(peek),
               pos |-> AfterPeek(src)]

\* iter(table.rows): a list gives a fresh iterator, anything else is its own
Iter(tb, src) ==
    IF ~tb.wrapped /\ src.reiterable THEN [tb EXCEPT !.pos = 0] ELSE tb

\* whether it.next() returns a row (otherwise it raises StopIteration)
HasNext(tb, src) == tb.pending # <<>> \/ tb.pos < Len(src.rows)

\* the row it.next() returns
NextRow(tb, src) ==
    IF tb.pending # <<>> THEN Head(tb.pending) ELSE src.rows[tb.pos + 1]

\* (mutant) it.next() hands out a row and leaves it in the stream
AdvanceStuck(tb, src) == tb

\* (mutant) a stream found exhausted starts again from its first row
AdvanceAgain(tb, src) ==
    IF tb.pending # <<>> THEN [tb EXCEPT !.pending = Tail(@)]
    ELSE IF tb.pos < Len(src.rows) THEN [tb EXCEPT !.pos = @ + 1]
    ELSE [tb EXCEPT !.pos = 0]

\* the stream after it.next()
Advance(tb, src) ==
    IF tb.pending # <<>> THEN [tb EXCEPT !.pending = Tail(@)]
    ELSE IF tb.pos < Len(src.rows) THEN [tb EXCEPT !.pos = @ + 1]
    ELSE tb

(***************************************************************************)
(* TableDiffer                                                             *)
(***************************************************************************)
NoDiffer ==
    [difference_detected |-> FALSE, ignore_case |-> FALSE,
     ignore_order |-> FALSE, skipped_fields |-> {}, mapping |-> {}]

\* (mutant) without "assert not (skipped_fields and only_fields)"
DifferRaisesFilters(ta, tb, o) ==
    \/ o.ignore_order /\ ~(ta.label_first_row /\ tb.label_first_row)
    \/ ta.label_first_row # tb.label_first_row

\* (mutant) without the assert under "if ignore_order"
DifferRaisesOrder(ta, tb, o) ==
    \/ o.skipped_fields # {} /\ o.only_fields # {}
    \/ ta.label_first_row # tb.label_first_row

\* (mutant) without "assert table_a.label_first_row == table_b.label_first_row"
DifferRaisesLabels(ta, tb, o) ==
    \/ o.ignore_order /\ ~(ta.label_first_row /\ tb.label_first_row)
    \/ o.skipped_fields # {} /\ o.only_fields # {}

\* the assert statements of TableDiffer.__init__ (an empty or missing
\* collection is false)
DifferRaises(ta, tb, o) ==
    \/ o.ignore_order /\ ~(ta.label_first_row /\ tb.label_first_row)
    \/ o.skipped_fields # {} /\ o.only_fields # {}
    \/ ta.label_first_row # tb.label_first_row

\* set(range(max(len(table_a.fields), len(table_b.fields))))
AllFields(ta, tb) == 0 .. (Max(Len(ta.fields), Len(tb.fields)) - 1)

\* (mutant) only_fields is ignored
SkippedFieldsGiven(ta, tb, o) == o.skipped_fields

\* the skipped_fields the constructor stores
SkippedFields(ta, tb, o) ==
    IF o.only_fields # {} THEN AllFields(ta, tb) \ o.only_fields
    ELSE o.skipped_fields

\* the inner loop with its break: the first j with fields_b[j] = field_a
FirstMatch(field_a, fields_b) ==
    LET js == {j \in 1..Len(fields_b) : fields_b[j] = field_a}
    IN  IF js = {} THEN {}
        ELSE {(CHOOSE j \in js : \A k \in js : j <= k) - 1}

\* self.mapping
LabelMapping(ta, tb) ==
    IF ta.label_first_row
    THEN UNION {{<<i - 1, j>> : j \in FirstMatch(ta.fields[i], tb.fields)} :
                    i \in 1..Len(ta.fields)}
    ELSE {}

\* TableDiffer.__init__ when no assertion fails
TableDifferInit(ta, tb, o) ==
    [difference_detected |-> FALSE, ignore_case |-> o.ignore_case,
     ignore_order |-> o.ignore_order,
     skipped_fields |-> SkippedFields(ta, tb, o),
     mapping |-> LabelMapping(ta, tb)]

IsNil(p) == ~p.present

\* the three comprehensions of _diff_row
Added(diffs) ==
    LET s == SelectSeq(diffs, LAMBDA t : IsNil(t[2]))
    IN  [k \in 1..Len(s) |-> <<s[k][1], s[k][3]>>]
Deleted(diffs) ==
    LET s == SelectSeq(diffs, LAMBDA t : IsNil(t[3]))
    IN  [k \in 1..Len(s) |-> <<s[k][1], s[k][2]>>]
Changed(diffs) ==
    SelectSeq(diffs, LAMBDA t : ~IsNil(t[2]) /\ ~IsNil(t[3]))

\* mapping = self.mapping if self.ignore_order else None
MappingUsed(d) == IF d.ignore_order THEN d.mapping ELSE {}

\* (mutant) no position is skipped
SkipNothing(d) == {}

\* skip = lambda i: i in self.skipped_fields
SkipUsed(d) == d.skipped_fields

\* the tuples (added, deleted, changed) _diff_row can return
_diff_row(d, row_a, row_b) ==
    {<<Added(diffs), Deleted(diffs), Changed(diffs)>> :
        diffs \in diff_seq_by_index(row_a, row_b, d.ignore_case,
                                    MappingUsed(d), SkipUsed(d))}

\* any([added, deleted, changed]), also any(field_diffs)
AnyOf(r) == \E k \in 1..Len(r) : r[k] # <<>>

\* (mutant) every comparison sets the flag
DetectAlways(d, r) == [d EXCEPT !.difference_detected = TRUE]

\* (mutant) the flag is assigned the outcome of the last comparison
DetectLast(d, r) == [d EXCEPT !.difference_detected = AnyOf(r)]

\* if any([added, deleted, changed]): self.difference_detected = True
Detect(d, r) ==
    [d EXCEPT !.difference_detected = IF AnyOf(r) THEN TRUE ELSE @]

(***************************************************************************)
(* State                                                                   *)
(***************************************************************************)
VARIABLES
    pc,           \* where the driver (a test, or main) stands
    args,         \* the arguments of a direct diff_seq_by_index call
    diffs,        \* the list that call returned
    source,       \* the two row sources handed to Table
    opts,         \* the options handed to Table and TableDiffer
    table,        \* the two Table objects
    seen,         \* the rows a loop over table.rows has been given
    differ,       \* the TableDiffer object
    field_diffs,  \* what the last diff_fields call returned (<<>>: no call yet)
    gen,          \* the frame of the diff_rows generator
    yielded,      \* the records diff_rows has yielded
    out           \* what pprint_diff has handed to output

vars ==
    <<pc, args, diffs, source, opts, table, seen, differ, field_diffs, gen,
      yielded, out>>

Tables == {"a", "b"}

NoArgs ==
    [a |-> <<>>, b |-> <<>>, ignore_case |-> FALSE, mapping |-> {}, skip |-> {}]
NoSource == [rows |-> <<>>, reiterable |-> FALSE]
NoSeen == [rows |-> <<>>, started |-> FALSE, done |-> FALSE]
\* the options: only_fields = {} with only_given FALSE is only_fields=None,
\* with only_given TRUE it is an empty set passed by the caller
NoGen == [state |-> "none", i |-> 0, rows_a |-> <<>>, rows_b |-> <<>>]
DefaultOpts ==
    [fields |-> [t \in Tables |-> <<>>],
     label_first_row |-> [t \in Tables |-> FALSE],
     skipped_fields |-> {}, only_fields |-> {}, only_given |-> FALSE,
     ignore_case |-> FALSE, ignore_order |-> FALSE]

\* the state before anything is constructed
Fresh ==
    /\ table = [t \in Tables |-> NoTable]
    /\ seen = [t \in Tables |-> NoSeen]
    /\ differ = NoDiffer
    /\ field_diffs = <<>>
    /\ gen = NoGen
    /\ yielded = <<>>
    /\ out = <<>>
    /\ diffs = <<>>

(***************************************************************************)
(* A direct call of diff_seq_by_index, as the unit tests make it           *)
(***************************************************************************)
CallDiffSeq ==
    /\ pc = "call"
    /\ diffs' \in diff_seq_by_index(args.a, args.b, args.ignore_case,
                                    args.mapping, args.skip)
    /\ pc' = "returned"
    /\ UNCHANGED <<args, source, opts, table, seen, differ, field_diffs, gen,
                   yielded, out>>

\* a second call with the two sequences exchanged and the same cmp, mapping
\* and skip
CallSwapped ==
    /\ pc = "returned"
    /\ args' = [args EXCEPT !.a = args.b, !.b = args.a]
    /\ diffs' \in diff_seq_by_index(args.b, args.a, args.ignore_case,
                                    args.mapping, args.skip)
    /\ pc' = "returned"
    /\ UNCHANGED <<source, opts, table, seen, differ, field_diffs, gen,
                   yielded, out>>

(***************************************************************************)
(* Table(rows, fields, label_first_row), table_a first                     *)
(***************************************************************************)
NewTable(t) ==
    /\ pc = (IF t = "a" THEN "start" ELSE "table_a")
    /\ IF TableRaises(source[t], opts.fields[t])
       THEN /\ pc' = "failed"
            /\ UNCHANGED table
       ELSE /\ table' = [table EXCEPT ![t] =
                            TableInit(source[t], opts.fields[t],
                                      opts.label_first_row[t])]
            /\ pc' = (IF t = "a" THEN "table_a" ELSE "tables")
    /\ UNCHANGED <<args, diffs, source, opts, seen, differ, field_diffs, gen,
                   yielded, out>>

(***************************************************************************)
(* One step of "for row in table.rows" over table t                        *)
(***************************************************************************)
ReadRow(t) ==
    /\ pc = "table_a"
    /\ ~seen[t].done
    /\ LET it == IF seen[t].started THEN table[t]
                 ELSE Iter(table[t], source[t])
       IN  IF HasNext(it, source[t])
           THEN /\ seen' = [seen EXCEPT ![t] =
                               [rows |-> Append(@.rows, NextRow(it, source[t])),
                                started |-> TRUE, done |-> FALSE]]
                /\ table' = [table EXCEPT ![t] = Advance(it, source[t])]
           ELSE /\ seen' = [seen EXCEPT ![t] =
                               [rows |-> @.rows, started |-> TRUE,
                                done |-> TRUE]]
                /\ table' = [table EXCEPT ![t] = it]
    /\ UNCHANGED <<pc, args, diffs, source, opts, differ, field_diffs, gen,
                   yielded, out>>

(***************************************************************************)
(* TableDiffer(table_a, table_b, ...)                                      *)
(***************************************************************************)
NewTableDiffer ==
    /\ pc = "tables"
    /\ IF DifferRaises(table.a, table.b, opts)
       THEN /\ pc' = "failed"
            /\ UNCHANGED differ
       ELSE /\ differ' = TableDifferInit(table.a, table.b, opts)
            /\ pc' = "ready"
    /\ UNCHANGED <<args, diffs, source, opts, table, seen, field_diffs, gen,
                   yielded, out>>

(***************************************************************************)
(* differ.diff_fields(), called directly                                   *)
(***************************************************************************)
DiffFields ==
    /\ pc = "ready"
    /\ \E r \in _diff_row(differ, table.a.fields, table.b.fields) :
          /\ field_diffs' = r
          /\ differ' = Detect(differ, r)
    /\ UNCHANGED <<pc, args, diffs, source, opts, table, seen, gen, yielded,
                   out>>

(***************************************************************************)
(* diff_rows                                                               *)
(***************************************************************************)
\* the rows a stream has still to give
StreamOf(tb, src) ==
    tb.pending \o SubSeq(src.rows, tb.pos + 1, Len(src.rows))

\* a = iter(self.table_a.rows); b = iter(self.table_b.rows); i = 0
\* (rows_a and rows_b record the two streams as they stand at that point)
StartRows ==
    LET ia == Iter(table.a, source.a)
        ib == Iter(table.b, source.b)
    IN  /\ table' = [a |-> ia, b |-> ib]
        /\ gen' = [state |-> "running", i |-> 0,
                   rows_a |-> StreamOf(ia, source.a),
                   rows_b |-> StreamOf(ib, source.b)]

\* (mutant) the record carries i itself after i += 1
PositionAfter(i) == i + 1

\* the position a record carries: i - 1 after i += 1
Position(i) == i

\* one pass of the while loop
RowsLoop ==
    LET hasx == HasNext(table.a, source.a)
        hasy == HasNext(table.b, source.b)
        x == NextRow(table.a, source.a)
        y == NextRow(table.b, source.b)
        p == Position(gen.i)
    IN  /\ table' = [a |-> Advance(table.a, source.a),
                     b |-> Advance(table.b, source.b)]
        /\ IF ~hasx /\ ~hasy
           THEN /\ gen' = [gen EXCEPT !.state = "done", !.i = @ + 1]
                /\ UNCHANGED <<yielded, differ>>
           ELSE IF ~hasy
           THEN /\ gen' = [gen EXCEPT !.i = @ + 1]
                /\ yielded' = Append(yielded, <<"deleted", p, x>>)
                /\ UNCHANGED differ
           ELSE IF ~hasx
           THEN /\ gen' = [gen EXCEPT !.i = @ + 1]
                /\ yielded' = Append(yielded, <<"added", p, y>>)
                /\ UNCHANGED differ
           ELSE IF Len(x) # Len(y)
           THEN /\ gen' = [gen EXCEPT !.state = "failed", !.i = @ + 1]
                /\ UNCHANGED <<yielded, differ>>
           ELSE \E r \in _diff_row(differ, x, y) :
                   /\ gen' = [gen EXCEPT !.i = @ + 1]
                   /\ differ' = Detect(differ, r)
                   /\ yielded' = IF r[3] # <<>>
                                 THEN Append(yielded, <<"changed", p, x, y, r[3]>>)
                                 ELSE yielded

\* differ.diff_rows(), called directly: the generator is created
DiffRows ==
    /\ pc = "ready"
    /\ gen.state = "none"
    /\ StartRows
    /\ UNCHANGED <<pc, args, diffs, source, opts, seen, differ, field_diffs,
                   yielded, out>>

\* the caller draws from the generator: one pass of its loop
DiffRowsStep ==
    /\ pc = "ready"
    /\ gen.state = "running"
    /\ RowsLoop
    /\ pc' = (IF gen'.state = "failed" THEN "failed" ELSE pc)
    /\ UNCHANGED <<args, diffs, source, opts, seen, field_diffs, out>>

(***************************************************************************)
(* pprint_diff, as main runs it                                            *)
(***************************************************************************)
\* (mutant) the row diff is never skipped
SkipsNever(r) == FALSE

\* if any(field_diffs): the row diff is skipped
SkipsRowDiff(r) == AnyOf(r)

\* the lines pprint_field_diffs hands to output
FieldLines(r) ==
    [k \in 1..Len(r[1]) |-> <<"Field added", r[1][k]>>]
        \o [k \in 1..Len(r[2]) |-> <<"Field deleted", r[2][k]>>]
        \o [k \in 1..Len(r[3]) |-> <<"Field changed", r[3][k]>>]

\* pprint_field_diffs, then the branch of pprint_diff
PPrintDiff ==
    /\ pc = "ready"
    /\ gen.state = "none"
    /\ \E r \in _diff_row(differ, table.a.fields, table.b.fields) :
          /\ field_diffs' = r
          /\ differ' = Detect(differ, r)
          /\ IF SkipsRowDiff(r)
             THEN /\ out' = out \o FieldLines(r)
                                \o <<"Fields changed, skipping row diff!">>
                  /\ pc' = "done"
                  /\ UNCHANGED <<gen, table>>
             ELSE /\ out' = out \o FieldLines(r)
                  /\ pc' = "pprint_row_diffs"
                  /\ StartRows
    /\ UNCHANGED <<args, diffs, source, opts, seen, yielded>>

\* pprint_row_diffs: one pass of the generator's loop, and pprint_row_diff
\* for the record it yields
PPrintRowDiffs ==
    /\ pc = "pprint_row_diffs"
    /\ RowsLoop
    /\ out' = (IF Len(yielded') > Len(yielded)
               THEN Append(out, yielded'[Len(yielded')]) ELSE out)
    /\ pc' = (CASE gen'.state = "done" -> "done"
                [] gen'.state = "failed" -> "failed"
                [] OTHER -> pc)
    /\ UNCHANGED <<args, diffs, source, opts, seen, field_diffs>>

\* return int(differ.difference_detected)
ExitStatus == IF differ.difference_detected THEN 1 ELSE 0

(***************************************************************************)
(* Inputs                                                                  *)
(***************************************************************************)
Rows(k) == [1..k -> Plain]
Uniform(k) == {[j \in 1..k |-> c] : c \in Plain}
DataRow(k) == [j \in 1..k |-> "a"]
AutoNames(k) == [j \in 1..k |-> FormatInt(j - 1)]
Cells == {"a", "A", "b"}
CaseRows(k) == [1..k -> Cells]
SchemasA == SeqsUpTo({"x", "nil"}, MaxCols) \ {<<>>}
SchemasB == SeqsUpTo({"x", "X"}, MaxCols) \ {<<>>}
LabelNames == <<"x", "y", "z", "w", "v">>
Cols == 0 .. (MaxCols - 1)

\* the (skipped_fields, only_fields) pairs tried: either one alone, and both
Filters ==
    {<<s, {}>> : s \in SUBSET Cols} \cup {<<{}, o>> : o \in SUBSET Cols}
        \cup {<<{0}, {0}>>}

\* hand-written mappings: at most MaxPairs pairs of positions
Mappings ==
    {m \in SUBSET ((0..(MaxLen - 1)) \X (0..(MaxLen - 1))) :
        Cardinality(m) <= MaxPairs}

\* calls with neither mapping nor skip, over strings of every kind
PlainArgs ==
    [a : SeqsUpTo(Strings, MaxPlain), b : SeqsUpTo(Strings, MaxPlain),
     ignore_case : BOOLEAN, mapping : {{}}, skip : {{}}]

\* "a", "b", "a", ... : k values, neighbours different
Alternating(k) == [j \in 1..k |-> IF j % 2 = 1 THEN "a" ELSE "b"]

\* calls with a mapping: every sequence against one of each length
MappedArgs ==
    [a : {Alternating(k) : k \in 0..MaxLen}, b : SeqsUpTo(Plain, MaxLen),
     ignore_case : {FALSE}, mapping : Mappings, skip : {{}}]

\* calls with a skip predicate, with and without a one-pair mapping
SkippedArgs ==
    [a : SeqsUpTo(Plain, MaxPlain), b : SeqsUpTo(Plain, MaxPlain),
     ignore_case : {FALSE},
     mapping : {{}} \cup {{p} : p \in (0..(MaxPlain - 1)) \X (0..(MaxPlain - 1))},
     skip : SUBSET (0..(MaxPlain - 1))]

InitSeq ==
    /\ pc = "call"
    /\ args \in PlainArgs \cup MappedArgs \cup SkippedArgs
    /\ source = [t \in Tables |-> NoSource]
    /\ opts = DefaultOpts
    /\ Fresh

\* two tables of the same width and default options: with explicit fields
\* over lists (as the unit tests build them) or over single-pass readers
\* with the fields left to Table (as main builds them)
InitRows ==
    \E k \in 1..MaxCols, given \in BOOLEAN :
    \E ra \in SeqsUpTo(Uniform(k), MaxRows), rb \in SeqsUpTo(Rows(k), MaxRows) :
        /\ source = [a |-> [rows |-> ra, reiterable |-> given],
                     b |-> [rows |-> rb, reiterable |-> given]]
        /\ opts = [DefaultOpts EXCEPT
                     !.fields = [t \in Tables |->
                                   IF given THEN AutoNames(k) ELSE <<>>]]

\* two schemas of any widths under every option (ignore_order on labelled
\* tables only); one data row per table
InitFields ==
    \E fa \in SchemasA, fb \in SchemasB, labelled \in BOOLEAN, f \in Filters :
    \E ic \in BOOLEAN, io \in (IF labelled THEN BOOLEAN ELSE {FALSE}) :
        /\ source =
             IF labelled
             THEN [a |-> [rows |-> <<fa, DataRow(Len(fa))>>,
                          reiterable |-> FALSE],
                   b |-> [rows |-> <<fb, DataRow(Len(fb))>>,
                          reiterable |-> FALSE]]
             ELSE [a |-> [rows |-> <<DataRow(Len(fa))>>, reiterable |-> TRUE],
                   b |-> [rows |-> <<DataRow(Len(fb))>>, reiterable |-> TRUE]]
        /\ opts = [fields |-> IF labelled THEN [t \in Tables |-> <<>>]
                              ELSE [a |-> fa, b |-> fb],
                   label_first_row |-> [t \in Tables |-> labelled],
                   skipped_fields |-> f[1], only_fields |-> f[2],
                   only_given |-> (f[2] # {}),
                   ignore_case |-> ic, ignore_order |-> io]

\* one row against one row under a field filter, with and without
\* ignore_case: the cells differ in value, in case, or not at all, and the
\* fields are given (they need not be as many as the cells)
InitFiltered ==
    \E k \in 1..MaxCols, w \in 1..MaxCols, s \in SUBSET Cols :
    \E ra \in Uniform(k), rb \in CaseRows(k), only \in BOOLEAN, ic \in BOOLEAN :
        /\ source = [a |-> [rows |-> <<ra>>, reiterable |-> TRUE],
                     b |-> [rows |-> <<rb>>, reiterable |-> TRUE]]
        /\ opts = [fields |-> [t \in Tables |-> AutoNames(w)],
                   label_first_row |-> [t \in Tables |-> FALSE],
                   skipped_fields |-> IF only THEN {} ELSE s,
                   only_fields |-> IF only THEN s ELSE {},
                   only_given |-> only,
                   ignore_case |-> ic, ignore_order |-> FALSE]

\* two one-column readers where either table, both or neither takes its
\* first row as labels, with and without ignore_order
InitMixed ==
    \E la \in BOOLEAN, lb \in BOOLEAN, io \in BOOLEAN, fb \in {"x", "y"} :
        /\ source = [a |-> [rows |-> << <<"x">>, <<"a">> >>,
                            reiterable |-> FALSE],
                     b |-> [rows |-> << <<fb>>, <<"a">> >>,
                            reiterable |-> FALSE]]
        /\ opts = [DefaultOpts EXCEPT
                     !.label_first_row = [a |-> la, b |-> lb],
                     !.ignore_order = io]

\* lists whose rows are not all of the same length
InitRagged ==
    \E ra \in SeqsUpTo({DataRow(k) : k \in 1..MaxCols}, MaxRows),
       rb \in SeqsUpTo(UNION {Uniform(k) : k \in 1..MaxCols}, MaxRows) :
        /\ source = [a |-> [rows |-> ra, reiterable |-> TRUE],
                     b |-> [rows |-> rb, reiterable |-> TRUE]]
        /\ opts = [DefaultOpts EXCEPT
                     !.fields = [t \in Tables |-> AutoNames(1)]]

Init ==
    /\ pc = "start"
    /\ args = NoArgs
    /\ Fresh
    /\ (InitRows \/ InitFields \/ InitFiltered \/ InitMixed \/ InitRagged)

\* labelled tables compared with ignore_order: the labels of B are those of
\* A in another order, and every row of B is the row of A reordered alike
InitOrder ==
    /\ pc = "start"
    /\ args = NoArgs
    /\ Fresh
    /\ \E k \in 1..MaxLabels :
       \E perm \in Permutations(1..k), ra \in SeqsUpTo(Rows(k), MaxRows) :
          LET fa == SubSeq(LabelNames, 1, k)
              fb == [j \in 1..k |-> fa[perm[j]]]
              rb == [p \in 1..Len(ra) |-> [j \in 1..k |-> ra[p][perm[j]]]]
          IN  /\ source = [a |-> [rows |-> <<fa>> \o ra, reiterable |-> FALSE],
                           b |-> [rows |-> <<fb>> \o rb, reiterable |-> FALSE]]
              /\ opts = [DefaultOpts EXCEPT
                           !.label_first_row = [t \in Tables |-> TRUE],
                           !.ignore_order = TRUE]

\* one table over a list or a single-pass iterator, with or without fields
\* and label_first_row
InitTable ==
    /\ pc = "start"
    /\ args = NoArgs
    /\ Fresh
    /\ \E rows \in SeqsUpTo(UNION {Rows(k) : k \in 1..MaxCols}, MaxRows + 1),
          re \in BOOLEAN, fields \in {<<>>, <<"x", "y">>}, label \in BOOLEAN :
          /\ source = [a |-> [rows |-> rows, reiterable |-> re], b |-> NoSource]
          /\ opts = [DefaultOpts EXCEPT
                       !.fields = [a |-> fields, b |-> <<>>],
                       !.label_first_row = [a |-> label, b |-> FALSE]]

\* inputs with a skip predicate or a field filter: direct calls, and
\* differs over two schemas or two rows
InitSkip ==
    /\ Fresh
    /\ \/ /\ pc = "call"
          /\ args \in SkippedArgs
          /\ source = [t \in Tables |-> NoSource]
          /\ opts = DefaultOpts
       \/ /\ pc = "start"
          /\ args = NoArgs
          /\ (InitFields \/ InitFiltered)

(***************************************************************************)
(* Specifications                                                          *)
(***************************************************************************)
Next ==
    \/ \E t \in Tables : NewTable(t)
    \/ NewTableDiffer
    \/ DiffFields
    \/ DiffRows
    \/ DiffRowsStep
    \/ PPrintDiff
    \/ PPrintRowDiffs

NextSeq == CallDiffSeq \/ CallSwapped

NextTable == NewTable("a") \/ ReadRow("a")

\* the differ as the tests and main drive it
Spec == Init /\ [][Next]_vars

\* the same, on labelled tables compared with ignore_order
SpecOrder == InitOrder /\ [][Next]_vars

\* direct calls of diff_seq_by_index
SpecSeq == InitSeq /\ [][NextSeq]_vars

\* a Table and a loop over its rows
SpecTable == InitTable /\ [][NextTable]_vars

NextSkip == NextSeq \/ Next

\* calls and differs with positions filtered out
SpecSkip == InitSkip /\ [][NextSkip]_vars

\* streams of up to MaxRows rows of one width, over lists with the fields
\* given or over single-pass readers with the fields left to Table
InitStreams ==
    \E k \in 1..MaxCols, given \in BOOLEAN :
    \E ra \in SeqsUpTo({DataRow(k)}, MaxRows),
       rb \in SeqsUpTo(Uniform(k), MaxRows) :
        /\ source = [a |-> [rows |-> ra, reiterable |-> given],
                     b |-> [rows |-> rb, reiterable |-> given]]
        /\ opts = [DefaultOpts EXCEPT
                     !.fields = [t \in Tables |->
                                   IF given THEN AutoNames(k) ELSE <<>>]]

\* tables of rows, the rows of one width or of several
InitDrawn ==
    /\ pc = "start"
    /\ args = NoArgs
    /\ Fresh
    /\ (InitStreams \/ InitRagged)

\* the differ with its consumers: list(differ.diff_rows()) and the for loop
\* of pprint_row_diffs draw from the generator until it stops
SpecDrawn ==
    /\ InitDrawn
    /\ [][Next]_vars
    /\ WF_vars(DiffRowsStep)
    /\ WF_vars(PPrintRowDiffs)

(***************************************************************************)
(* Properties of diff_seq_by_index (checked under SpecSeq)                 *)
(***************************************************************************)
\* what the two argument sequences hold at 0-based position i
ArgA(i) == IF i + 1 \in DOMAIN args.a THEN Val(args.a[i + 1]) ELSE nil
ArgB(i) == IF i + 1 \in DOMAIN args.b THEN Val(args.b[i + 1]) ELSE nil
ArgPositions == 0 .. (Max(Len(args.a), Len(args.b)) - 1)

\* the returned triples are in strictly increasing order of position
Increasing(list) == \A k \in 1..(Len(list) - 1) : list[k][1] < list[k + 1][1]

\* the call returned, and was made with no mapping, no skip, default cmp
PlainCall ==
    pc = "returned" /\ args.mapping = {} /\ args.skip = {} /\ ~args.ignore_case

\* C1: with no mapping and no skip, diff_seq_by_index(A, B) returns exactly
\* one triple (i, A[i] or nil, B[i] or nil) for each position
\* i < max(|A|, |B|) where A[i] differs from B[i], no other triple, and the
\* triples are in strictly increasing order of i.
C1_PositionalDiff ==
    PlainCall =>
        /\ \A k \in DOMAIN diffs :
              LET i == diffs[k][1]
              IN  /\ i \in ArgPositions
                  /\ diffs[k] = <<i, ArgA(i), ArgB(i)>>
                  /\ ArgA(i) # ArgB(i)
        /\ \A i \in ArgPositions :
              ArgA(i) # ArgB(i) => \E k \in DOMAIN diffs : diffs[k][1] = i
        /\ Increasing(diffs)

\* a changed position followed by an added one
C1_Witness ==
    /\ PlainCall
    /\ Len(args.a) < Len(args.b)
    /\ Len(diffs) = 2
    /\ diffs[1][2].present
    /\ ~diffs[2][2].present

\* the pairs of the mapping share no index
PairwiseDisjoint(mapping) ==
    \A p \in mapping, q \in mapping :
        p # q => {p[1], p[2]} \cap {q[1], q[2]} = {}

\* the partner of i: the other index of the pair i occurs in, else i
Partner(mapping, i) ==
    IF \E p \in mapping : p[1] = i
    THEN (CHOOSE p \in mapping : p[1] = i)[2]
    ELSE IF \E p \in mapping : p[2] = i
    THEN (CHOOSE p \in mapping : p[2] = i)[1]
    ELSE i

MappedCall ==
    /\ pc = "returned"
    /\ args.skip = {}
    /\ ~args.ignore_case
    /\ PairwiseDisjoint(args.mapping)

\* C10: for a mapping of pairwise disjoint index pairs and no skip,
\* diff_seq_by_index compares A[i] against B[m(i)], m(i) being i's partner
\* (on either side of a pair) or i itself, and returns (i, A[i] or nil,
\* B[m(i)] or nil) exactly for the positions i < max(|A|, |B|) where the two
\* differ, in increasing order of i.
C10_MappedDiff ==
    MappedCall =>
        /\ \A k \in DOMAIN diffs :
              LET i == diffs[k][1]
                  j == Partner(args.mapping, i)
              IN  /\ i \in ArgPositions
                  /\ diffs[k] = <<i, ArgA(i), ArgB(j)>>
                  /\ ArgA(i) # ArgB(j)
        /\ \A i \in ArgPositions :
              ArgA(i) # ArgB(Partner(args.mapping, i))
                  => \E k \in DOMAIN diffs : diffs[k][1] = i
        /\ Increasing(diffs)

\* the mapping {(1, 2)} makes two sequences that differ at 1 and 2 equal
C10_Witness ==
    /\ MappedCall
    /\ args.mapping = {<<1, 2>>}
    /\ args.a = <<"a", "b", "a">>
    /\ Len(args.a) = 3
    /\ Len(args.b) = 3
    /\ args.a[2] # args.b[2]
    /\ args.a[3] # args.b[3]
    /\ diffs = <<>>

\* C6: nil is never equal to a concrete value under either comparator: a
\* position that exists in only one of the two sequences yields a triple at
\* that position, with ignore_case off and with ignore_case on.
C6_NilNeverEqual ==
    (pc = "returned" /\ args.mapping = {} /\ args.skip = {}) =>
        \A i \in ArgPositions :
            ArgA(i).present # ArgB(i).present
                => \E k \in DOMAIN diffs : diffs[k][1] = i

(***************************************************************************)
(* Properties of diff_rows (checked under Spec)                            *)
(***************************************************************************)
\* the two row streams diff_rows was started on
StreamA == gen.rows_a
StreamB == gen.rows_b
RowPositions == 0 .. (Max(Len(StreamA), Len(StreamB)) - 1)

DefaultOptions ==
    /\ opts.skipped_fields = {}
    /\ opts.only_fields = {}
    /\ ~opts.ignore_case
    /\ ~opts.ignore_order

EqualArity ==
    \A p \in DOMAIN StreamA, q \in DOMAIN StreamB :
        Len(StreamA[p]) = Len(StreamB[q])

\* the fields in which two rows of equal arity differ, in order
ChangedFields(x, y) ==
    SelectSeq([j \in 1..Len(x) |-> <<j - 1, Val(x[j]), Val(y[j])>>],
              LAMBDA t : t[2] # t[3])

\* whether the pair at position p is due a record, and which
DueRecord(p) ==
    \/ p >= Len(StreamA)
    \/ p >= Len(StreamB)
    \/ StreamA[p + 1] # StreamB[p + 1]
RecordAt(p) ==
    IF p >= Len(StreamA) THEN <<"added", p, StreamB[p + 1]>>
    ELSE IF p >= Len(StreamB) THEN <<"deleted", p, StreamA[p + 1]>>
    ELSE <<"changed", p, StreamA[p + 1], StreamB[p + 1],
           ChangedFields(StreamA[p + 1], StreamB[p + 1])>>

\* C2: over two streams of equal-arity rows and with default options,
\* diff_rows yields, in strictly increasing order of 0-based position p,
\* ("changed", p, A[p], B[p], changed fields) for every p < min(m, n) where
\* the rows differ, ("added", p, B[p]) for m <= p < n, ("deleted", p, A[p])
\* for n <= p < m, and nothing else; p is the pair's stream index.
C2_RowRecords ==
    (gen.state = "done" /\ DefaultOptions /\ EqualArity) =>
        /\ \A k \in DOMAIN yielded :
              LET p == yielded[k][2]
              IN  /\ p \in RowPositions
                  /\ DueRecord(p)
                  /\ yielded[k] = RecordAt(p)
        /\ \A p \in RowPositions :
              DueRecord(p) => \E k \in DOMAIN yielded : yielded[k][2] = p
        /\ \A k \in 1..(Len(yielded) - 1) : yielded[k][2] < yielded[k + 1][2]

\* the first pair gives no record and the second row of B is added at 1
C2_Witness ==
    /\ gen.state = "done"
    /\ DefaultOptions
    /\ Len(StreamA) = 1
    /\ Len(StreamB) = 2
    /\ yielded = << <<"added", 1, StreamB[2]>> >>

\* C3: after diff_fields has run and diff_rows has been consumed to its
\* end, difference_detected is true if and only if diff_fields returned a
\* non-empty partition or diff_rows yielded at least one record; so main's
\* exit status is nonzero exactly when a difference was reported.
C3_FlagIffDifference ==
    (\/ pc = "done"
     \/ pc = "ready" /\ field_diffs # <<>> /\ gen.state = "done")
        => ((ExitStatus # 0) <=> (AnyOf(field_diffs) \/ yielded # <<>>))

(***************************************************************************)
(* Properties of diff_fields (checked under Spec)                          *)
(***************************************************************************)
FieldsA == table.a.fields
FieldsB == table.b.fields
FieldPositions == 0 .. (Max(Len(FieldsA), Len(FieldsB)) - 1)
FieldA(i) == IF i + 1 \in DOMAIN FieldsA THEN Val(FieldsA[i + 1]) ELSE nil
FieldB(i) == IF i + 1 \in DOMAIN FieldsB THEN Val(FieldsB[i + 1]) ELSE nil

\* the (added, deleted, changed) partition of a list of triples
PartitionOf(triples) ==
    LET ad == SelectSeq(triples, LAMBDA t : ~t[2].present)
        de == SelectSeq(triples, LAMBDA t : ~t[3].present)
        ch == SelectSeq(triples, LAMBDA t : t[2].present /\ t[3].present)
    IN  << [k \in 1..Len(ad) |-> <<ad[k][1], ad[k][3]>>],
           [k \in 1..Len(de) |-> <<de[k][1], de[k][2]>>],
           ch >>

\* the positional triples of the two schemas outside skip, under a comparator
PositionalTriples(skip, ignore_case) ==
    SelectSeq([j \in 1..Max(Len(FieldsA), Len(FieldsB)) |->
                  <<j - 1, FieldA(j - 1), FieldB(j - 1)>>],
              LAMBDA t : t[1] \notin skip
                         /\ ~comparator(ignore_case, t[2], t[3]))

\* the triples a diff_fields result stands for
TriplesOf(r) ==
    {<<e[1], nil, e[2]>> : e \in {r[1][k] : k \in DOMAIN r[1]}}
        \cup {<<e[1], e[2], nil>> : e \in {r[2][k] : k \in DOMAIN r[2]}}
        \cup {r[3][k] : k \in DOMAIN r[3]}

\* the B positions the label mapping pairs with A position i, either way
\* round; i itself when there is none
MappedTo(i) ==
    LET js == {p[2] : p \in {q \in differ.mapping : q[1] = i}}
                  \cup {p[1] : p \in {q \in differ.mapping : q[2] = i}}
    IN  IF js = {} THEN {i} ELSE js

C5_SameUnderReordering ==
    /\ field_diffs # <<>> => ~AnyOf(field_diffs)
    /\ yielded = <<>>

(***************************************************************************)
(* Properties of Table (checked under SpecTable)                           *)
(***************************************************************************)
\* C7: a Table built without fields and without label_first_row from a
\* non-empty source has the fields "0".."n-1", n the length of the first
\* row, and a loop over table.rows is given exactly the rows of the source,
\* in order, each once, beginning with the peeked row.
C7_StreamPreserved ==
    (pc = "table_a" /\ opts.fields.a = <<>> /\ ~opts.label_first_row.a) =>
        /\ table.a.fields = SubSeq(Digits, 1, Len(source.a.rows[1]))
        /\ seen.a.done => seen.a.rows = source.a.rows

\* C8: for a Table built with label_first_row the first row of the source
\* becomes the schema and is excluded from the row stream: a loop over
\* table.rows is given the source's rows from the second on.
C8_LabelRowExcluded ==
    (pc = "table_a" /\ opts.fields.a = <<>> /\ opts.label_first_row.a) =>
        /\ table.a.fields = source.a.rows[1]
        /\ seen.a.done => seen.a.rows = Tail(source.a.rows)

(***************************************************************************)
(* Properties of pprint_diff (checked under Spec)                          *)
(***************************************************************************)
\* pprint_diff is running or has run
InPPrintDiff == pc \in {"pprint_row_diffs", "done"}

\* C9: in pprint_diff, whenever diff_fields returns a non-empty partition,
\* diff_rows is not invoked and no row is drawn from either table; diff_rows
\* runs only after a diff_fields call that returned three empty partitions.
C9_ShortCircuit ==
    /\ [](InPPrintDiff /\ AnyOf(field_diffs)
             => gen.state = "none" /\ yielded = <<>>)
    /\ [](InPPrintDiff /\ gen.state # "none"
             => field_diffs = <<<<>>, <<>>, <<>>>>)
    /\ [][pc = "ready" /\ pc' \in {"pprint_row_diffs", "done"}
             /\ AnyOf(field_diffs')
             => pc' = "done" /\ table' = table /\ gen' = gen]_vars

\* the schemas differ, the row diff was skipped and both tables still hold
\* their rows
C9_Witness ==
    /\ pc = "done"
    /\ AnyOf(field_diffs)
    /\ gen.state = "none"
    /\ HasNext(table.a, source.a)
    /\ HasNext(table.b, source.b)

(***************************************************************************)
(* Properties of skip and the field filter (checked under SpecSkip)        *)
(***************************************************************************)
\* the positions of the changed fields of the k-th yielded record
ChangedAt(k) ==
    IF yielded[k][1] = "changed"
    THEN {yielded[k][5][m][1] : m \in DOMAIN yielded[k][5]}
    ELSE {}

\* C11: whatever the sequences, the mapping and the skip predicate, the
\* result of diff_seq_by_index holds no triple at a position i with skip(i)
\* true; hence a TableDiffer with skipped_fields S never reports an added,
\* deleted or changed field, or a changed value, at an index in S.
C11_SkipCorrect ==
    /\ pc = "returned" =>
          \A k \in DOMAIN diffs : diffs[k][1] \notin args.skip
    /\ field_diffs # <<>> =>
          \A t \in TriplesOf(field_diffs) : t[1] \notin opts.skipped_fields
    /\ \A k \in DOMAIN yielded : ChangedAt(k) \cap opts.skipped_fields = {}

\* a call whose sequences differ at a skipped position and at another one
C11_Witness ==
    /\ pc = "returned"
    /\ \E i \in args.skip : ArgA(i) # ArgB(i)
    /\ diffs # <<>>
    /\ args.mapping # {}

(***************************************************************************)
(* Properties of the comparator and the filter in diff_rows (under Spec)   *)
(***************************************************************************)
\* the positions at which both streams gave a row
PairPositions == 0 .. (Min(Len(StreamA), Len(StreamB)) - 1)

\* the cells of the pair at position p
CellA(p, j) == StreamA[p + 1][j + 1]
CellB(p, j) == StreamB[p + 1][j + 1]
CellPositions(p) == 0 .. (Len(StreamA[p + 1]) - 1)

\* field j of the pair at position p is reported as changed
CellReported(p, j) ==
    \E k \in DOMAIN yielded :
        /\ yielded[k][1] = "changed"
        /\ yielded[k][2] = p
        /\ \E m \in DOMAIN yielded[k][5] :
              yielded[k][5][m] = <<j, Val(CellA(p, j)), Val(CellB(p, j))>>

\* C12: with ignore_case on, two present cell values are reported as changed
\* if and only if their string forms differ after lower-casing ("a" against
\* "A" gives no diff); with ignore_case off, if and only if they are not
\* exactly equal.  (Stated for the positions the filter leaves in.)
C12_IgnoreCase ==
    (gen.state = "done" /\ ~differ.ignore_order /\ EqualArity) =>
        \A p \in PairPositions :
            \A j \in CellPositions(p) \ differ.skipped_fields :
                CellReported(p, j) <=>
                    IF differ.ignore_case
                    THEN Lower(CellA(p, j)) # Lower(CellB(p, j))
                    ELSE CellA(p, j) # CellB(p, j)

\* "a" against "A" under ignore_case: no record
C12_Witness ==
    /\ gen.state = "done"
    /\ differ.ignore_case
    /\ differ.skipped_fields = {}
    /\ StreamA = << <<"a">> >>
    /\ StreamB = << <<"A">> >>
    /\ yielded = <<>>

\* the differ exists
Constructed == pc \in {"ready", "pprint_row_diffs", "done"}

\* a set O was passed as only_fields, and no skip list
OnlyPassed == Constructed /\ opts.only_given /\ opts.skipped_fields = {}

\* the differ's filter is the complement of O = only_fields within
\* 0..max(len(fields A), len(fields B))-1: a position of that range is
\* reported by diff_fields or diff_rows only if it is in O, and a position
\* in O is compared as it would be without a filter
FilterIsComplement ==
        /\ differ.skipped_fields = FieldPositions \ opts.only_fields
        /\ field_diffs # <<>> =>
              \A t \in TriplesOf(field_diffs) :
                  t[1] \in FieldPositions => t[1] \in opts.only_fields
        /\ \A k \in DOMAIN yielded :
              ChangedAt(k) \cap FieldPositions \subseteq opts.only_fields
        /\ (field_diffs # <<>> /\ ~differ.ignore_order) =>
              \A i \in opts.only_fields \cap FieldPositions :
                  (\E t \in TriplesOf(field_diffs) : t[1] = i)
                      <=> ~comparator(differ.ignore_case, FieldA(i), FieldB(i))

\* C13 as claimed: for every set O passed as only_fields (and no skip list)
\* the differ's filter is the complement of O within the range of the
\* field positions.
C13_OnlyFieldsComplement == OnlyPassed => FilterIsComplement

\* C13 as amended: that holds for every non-empty set O; an empty O is
\* taken as no only_fields at all and the filter is empty.
C13_NonEmptyOnlyFields ==
    OnlyPassed =>
        IF opts.only_fields = {}
        THEN differ.skipped_fields = {}
        ELSE FilterIsComplement

\* only_fields {0} over rows of two cells that differ in the second: the
\* filter is {1} and diff_rows yields nothing
C13_Witness ==
    /\ OnlyPassed
    /\ opts.only_fields = {0}
    /\ differ.skipped_fields = {1}
    /\ gen.state = "done"
    /\ Len(StreamA) = 1
    /\ Len(StreamB) = 1
    /\ Len(StreamA[1]) = 2
    /\ Len(StreamB[1]) = 2
    /\ StreamA[1][2] # StreamB[1][2]
    /\ yielded = <<>>

(***************************************************************************)
(* Symmetry of diff_seq_by_index (checked under SpecSeq)                   *)
(***************************************************************************)
\* the triples of a list
TriplesIn(list) == {list[k] : k \in DOMAIN list}

\* the step from diff_seq_by_index(A, B) to diff_seq_by_index(B, A)
SwappedCall == pc = "returned" /\ pc' = "returned"

\* the mapping's indices are positions of the loop, and skip treats the two
\* indices of a pair alike
MappingInRange ==
    /\ \A q \in args.mapping : q[1] \in ArgPositions /\ q[2] \in ArgPositions
    /\ \A i \in args.skip : Partner(args.mapping, i) \in args.skip

\* C14 as claimed: with the same mapping and skip given to both calls,
\* diff_seq_by_index(A, B) and diff_seq_by_index(B, A) report the same set
\* of positions, and the entry at each position has its sides swapped.
C14_Symmetric ==
    [][SwappedCall =>
          TriplesIn(diffs') = {<<t[1], t[3], t[2]>> : t \in TriplesIn(diffs)}]_vars

\* C14 as amended: without a mapping the two calls report the same
\* positions with the sides swapped; with a mapping of pairwise disjoint
\* pairs, (i, x, y) is reported by the first call exactly when (m(i), y, x)
\* is reported by the second, m(i) being the partner of i.
C14_SymmetricUpToMapping ==
    [][SwappedCall /\ PairwiseDisjoint(args.mapping) /\ MappingInRange =>
          TriplesIn(diffs') =
              {<<Partner(args.mapping, t[1]), t[3], t[2]>> :
                   t \in TriplesIn(diffs)}]_vars

\* the swapped call under a mapping reports one position, a mapped one
C14_Witness ==
    /\ pc = "returned"
    /\ args.mapping # {}
    /\ PairwiseDisjoint(args.mapping)
    /\ MappingInRange
    /\ Len(diffs) = 1
    /\ Partner(args.mapping, diffs[1][1]) # diffs[1][1]

(***************************************************************************)
(* Properties of TableDiffer's construction (checked under Spec)           *)
(***************************************************************************)
\* TableDiffer(...) is being called
Constructing == pc = "tables"

\* the call raised: there is no differ, and it compared and drew nothing
Rejected ==
    /\ pc' = "failed"
    /\ UNCHANGED <<differ, table, gen, field_diffs, yielded, out>>

BothFilters == opts.skipped_fields # {} /\ opts.only_fields # {}
BothLabelled == table.a.label_first_row /\ table.b.label_first_row
NoneLabelled == ~table.a.label_first_row /\ ~table.b.label_first_row

\* C15: constructing a TableDiffer with both a skip list and an only list
\* fails at construction, before any field or row comparison and before any
\* row is drawn; no differ with both filters exists.
C15_BothFiltersRejected ==
    /\ [][Constructing /\ BothFilters => Rejected]_vars
    /\ [](BothFilters =>
             /\ ~Constructed
             /\ differ = NoDiffer
             /\ field_diffs = <<>>
             /\ gen.state = "none"
             /\ yielded = <<>>)

\* both tables were built and the differ with two filters was refused
C15_Witness ==
    /\ pc = "failed"
    /\ BothFilters
    /\ table.a.fields # <<>>
    /\ table.b.fields # <<>>
    /\ ~opts.ignore_order
    /\ table.a.label_first_row = table.b.label_first_row

\* C16: constructing a TableDiffer with ignore_order fails, before any
\* comparison, unless both tables have label_first_row set; whenever it
\* succeeds with ignore_order, both tables are label-schema tables.
C16_IgnoreOrderNeedsLabels ==
    /\ [][Constructing /\ opts.ignore_order /\ ~BothLabelled => Rejected]_vars
    /\ [](Constructed /\ opts.ignore_order =>
             BothLabelled /\ differ.ignore_order)

\* ignore_order on two tables neither of which is labelled: refused
C16_Witness ==
    /\ pc = "failed"
    /\ opts.ignore_order
    /\ NoneLabelled
    /\ ~BothFilters
    /\ table.a.fields # <<>>
    /\ table.b.fields # <<>>

\* every changed value of every record is (j, A[p][j], B[p][j])
RowsPositional ==
    \A k \in DOMAIN yielded :
        yielded[k][1] = "changed" =>
            \A m \in DOMAIN yielded[k][5] :
                LET j == yielded[k][5][m][1]
                IN  yielded[k][5][m] =
                        <<j, Val(yielded[k][3][j + 1]), Val(yielded[k][4][j + 1])>>

\* C17 as claimed: when the two tables are not both label-schema tables
\* (neither is, or exactly one is) and ignore_order is not requested,
\* construction succeeds with an empty mapping.
C17_DegradesToPositional ==
    [][Constructing /\ ~BothLabelled /\ ~opts.ignore_order /\ ~BothFilters =>
          pc' = "ready" /\ differ'.mapping = {}]_vars

\* C17 as amended: when neither table is a label-schema table and
\* ignore_order is not requested, construction succeeds with an empty
\* mapping and fields and rows are compared position by position; when
\* exactly one of the two is, construction fails.
C17_DegradesOrRejects ==
    /\ [][Constructing /\ NoneLabelled /\ ~opts.ignore_order /\ ~BothFilters =>
             pc' = "ready" /\ differ'.mapping = {}]_vars
    /\ [][Constructing /\ ~BothLabelled /\ ~NoneLabelled => Rejected]_vars
    /\ [](Constructed /\ NoneLabelled =>
             /\ MappingUsed(differ) = {}
             /\ field_diffs # <<>> =>
                   field_diffs =
                       PartitionOf(PositionalTriples(differ.skipped_fields,
                                                     differ.ignore_case))
             /\ RowsPositional)

\* two unlabelled tables whose schemas differ at a position: the differ has
\* no mapping and reports the field as changed
C17_Witness ==
    /\ pc = "ready"
    /\ NoneLabelled
    /\ differ.mapping = {}
    /\ field_diffs # <<>>
    /\ field_diffs[3] # <<>>

\* C18: difference_detected is false on a freshly constructed differ and,
\* once true, stays true through every later diff_fields call and diff_rows
\* step on the same differ.
C18_FlagMonotonic ==
    /\ [][Constructing /\ pc' = "ready" => ~differ'.difference_detected]_vars
    /\ [][differ.difference_detected => differ'.difference_detected]_vars

\* the schemas differ, the rows do not: the flag is set and diff_rows has
\* run to its end over a pair of rows without yielding
C18_Witness ==
    /\ differ.difference_detected
    /\ AnyOf(field_diffs)
    /\ gen.state = "done"
    /\ Len(StreamA) > 0
    /\ Len(StreamB) > 0
    /\ yielded = <<>>

\* diff_rows takes the pair of rows at position gen.i
PairStep ==
    /\ gen.state = "running"
    /\ gen'.i = gen.i + 1
    /\ gen.i \in PairPositions
    /\ Len(StreamA[gen.i + 1]) = Len(StreamB[gen.i + 1])

\* the two cells at field j of the pair at position p differ for the differ
CellsDiffer(p, j) ==
    IF differ.ignore_case
    THEN Lower(CellA(p, j)) # Lower(CellB(p, j))
    ELSE CellA(p, j) # CellB(p, j)

\* the pair at position p differs at filtered-out fields at most
OnlyFilteredDiffer(p) ==
    \A j \in CellPositions(p) : CellsDiffer(p, j) => j \in differ.skipped_fields

\* C19: a pair of equal-arity rows whose only differences lie at
\* filtered-out positions yields no record and does not set
\* difference_detected; the field list of every "changed" record is
\* non-empty and holds non-filtered positions only.
C19_FilteredRowsSilent ==
    /\ [][PairStep /\ ~differ.ignore_order /\ OnlyFilteredDiffer(gen.i) =>
             yielded' = yielded /\ differ' = differ]_vars
    /\ [](\A k \in DOMAIN yielded :
             yielded[k][1] = "changed" =>
                 /\ ChangedAt(k) # {}
                 /\ ChangedAt(k) \cap differ.skipped_fields = {})

\* two rows that differ in a filtered-out field only: no record, flag unset
C19_Witness ==
    /\ gen.state = "done"
    /\ Len(StreamA) = 1
    /\ Len(StreamB) = 1
    /\ Len(StreamA[1]) = Len(StreamB[1])
    /\ \E j \in CellPositions(0) :
          CellA(0, j) # CellB(0, j) /\ Lower(CellA(0, j)) # Lower(CellB(0, j))
    /\ OnlyFilteredDiffer(0)
    /\ yielded = <<>>
    /\ ~differ.difference_detected

(***************************************************************************)
(* Rows of unequal length (checked under Spec)                             *)
(***************************************************************************)
\* C20: when diff_rows meets a pair of rows of unequal arity, the
\* comparison ends in an error and no row-diff record of that comparison,
\* the records of the earlier pairs included, has been delivered to the
\* consumer or printed.
C20_NoPartialResults ==
    gen.state = "failed" =>
        /\ pc = "failed"
        /\ yielded = <<>>
        /\ out = <<>>

(***************************************************************************)
(* Termination of diff_rows (checked under SpecDrawn)                      *)
(***************************************************************************)
\* max(m, n) for the streams of m and n rows diff_rows was started on
LongerStream == Max(Len(StreamA), Len(StreamB))

\* the generator returns: the pass in which both draws gave nil
TerminalStep == gen.state = "running" /\ gen'.state = "done"

\* C21: for finite streams of m and n equal-arity rows diff_rows always
\* terminates: it makes exactly max(m,n)+1 lock-step passes, stops at the
\* first pass in which both draws give nil, yields at most max(m,n)
\* records, and yields nothing after that terminal pass.
C21_Terminates ==
    /\ (gen.state = "running" /\ EqualArity) ~> (gen.state = "done")
    /\ [](EqualArity /\ gen.state = "running" => gen.i <= LongerStream)
    /\ [](EqualArity /\ gen.state = "done" =>
              /\ gen.i = LongerStream + 1
              /\ Len(yielded) <= LongerStream)
    /\ [][EqualArity /\ TerminalStep => gen.i = LongerStream]_vars
    /\ [][gen.state = "done" => gen' = gen /\ yielded' = yielded]_vars

\* streams of one and two rows, run to the end: three passes, and the
\* records of both positions
C21_Witness ==
    /\ gen.state = "done"
    /\ EqualArity
    /\ Len(StreamA) = 1
    /\ Len(StreamB) = 2
    /\ gen.i = 3
    /\ Len(yielded) = 2

(***************************************************************************)
(* The index lookup under ignore_order (checked under SpecOrder)           *)
(***************************************************************************)
\* the lookups diff_seq_by_index can build from the differ's label mapping
LookupsBuilt == Dicts(BiDirectional(MappingUsed(differ)))

\* whenever i resolves to j, j resolves to i
Symmetric(d) == \A i \in DOMAIN d : Lookup(d, d[i]) = i

\* every pair of the mapping is honoured in both directions
Honoured(d, mapping) ==
    \A p \in mapping : Lookup(d, p[1]) = p[2] /\ Lookup(d, p[2]) = p[1]

\* C22: the index lookup diff_seq_by_index builds from a mapping is
\* symmetric for every mapping it is given, the label-derived mappings of
\* TableDiffer included: whenever i resolves to j, j resolves to i, and
\* every pair (i, j) of the mapping is honoured in both directions.
C22_LookupSymmetric ==
    field_diffs # <<>> /\ differ.ignore_order =>
        \A d \in LookupsBuilt :
            Symmetric(d) /\ Honoured(d, differ.mapping)

(***************************************************************************)
(* Labels without a match (checked under Spec)                             *)
(***************************************************************************)
\* the label at A position i is the label of no B position
Unmatched(i) ==
    /\ i + 1 \in DOMAIN FieldsA
    /\ \A j \in DOMAIN FieldsB : FieldsB[j] # FieldsA[i + 1]

\* diff_fields compared A position i against B position i: the triple of
\* the two values is reported if and only if they differ
ComparedInPlace(i) ==
    IF FieldA(i) = FieldB(i)
    THEN \A t \in TriplesOf(field_diffs) : t[1] # i
    ELSE <<i, FieldA(i), FieldB(i)>> \in TriplesOf(field_diffs)

\* C23: with ignore_order on, an index i of schema A whose label equals no
\* label of schema B falls back to identity: the value at A position i is
\* compared against the value at B position i, for all pairs of label
\* schemas.
C23_UnmatchedIsIdentity ==
    field_diffs # <<>> /\ differ.ignore_order /\ ~differ.ignore_case =>
        \A i \in FieldPositions \ differ.skipped_fields :
            Unmatched(i) => ComparedInPlace(i)

(***************************************************************************)
(* The label-derived mapping (checked under Spec)                          *)
(***************************************************************************)
\* the B positions (0-based) that carry the label of A position i
SameLabel(i) == {j \in 0..(Len(FieldsB) - 1) : FieldsB[j + 1] = FieldsA[i + 1]}

\* each A index is paired with at most one B index: the first B index that
\* carries its label
FirstMatchOnly ==
    \A p \in differ.mapping :
        /\ p[1] + 1 \in DOMAIN FieldsA
        /\ p[2] \in SameLabel(p[1])
        /\ \A j \in SameLabel(p[1]) : p[2] <= j
        /\ \A q \in differ.mapping : q[1] = p[1] => q = p

\* no B index is paired with two different A indices
NoSharedPartner ==
    \A p \in differ.mapping, q \in differ.mapping : p[2] = q[2] => p = q

\* C24: the label-derived mapping built at TableDiffer construction is
\* one-to-one for all pairs of label schemas, schemas with repeated labels
\* included: each A index is paired with at most one B index, the first
\* that carries the same label, and no B index is paired with two
\* different A indices.
C24_MappingOneToOne ==
    Constructed /\ BothLabelled => FirstMatchOnly /\ NoSharedPartner

(***************************************************************************)
(* The sentinel in the triples (checked under SpecSkip)                    *)
(***************************************************************************)
\* no triple of the list has nil on both sides
OneSentinelAtMost(list) ==
    \A k \in DOMAIN list : list[k][2].present \/ list[k][3].present

\* the positions a partition holds
PositionsIn(part) == {part[k][1] : k \in DOMAIN part}

\* the three partitions of r hold no position in common
PartitionsDisjoint(r) ==
    /\ PositionsIn(r[1]) \cap PositionsIn(r[2]) = {}
    /\ PositionsIn(r[1]) \cap PositionsIn(r[3]) = {}
    /\ PositionsIn(r[2]) \cap PositionsIn(r[3]) = {}

\* C25: every triple emitted by diff_seq_by_index, for any mapping and
\* skip, has at most one sentinel side, so the added, deleted and changed
\* partitions computed by _diff_row are pairwise disjoint and together hold
\* every emitted triple exactly once.
C25_OneSentinel ==
    /\ pc = "returned" =>
          /\ OneSentinelAtMost(diffs)
          /\ PartitionsDisjoint(<<Added(diffs), Deleted(diffs), Changed(diffs)>>)
          /\ Len(Added(diffs)) + Len(Deleted(diffs)) + Len(Changed(diffs))
                = Len(diffs)
    /\ field_diffs # <<>> =>
          /\ PartitionsDisjoint(field_diffs)
          /\ OneSentinelAtMost(field_diffs[3])

\* a call in which a position past the end of A is mapped past the end of
\* B: nil meets nil, and no triple is emitted for it
C25_Witness ==
    /\ pc = "returned"
    /\ args.a = <<>>
    /\ args.b = <<"a">>
    /\ args.mapping = {<<0, 1>>}
    /\ args.skip = {}
    /\ diffs = <<>>

(***************************************************************************)
(* Arity after matching schemas (checked under Spec)                       *)
(***************************************************************************)
\* diff_fields returned three empty partitions
SchemasMatched == field_diffs = <<<<>>, <<>>, <<>>>>

\* every row of a stream is as long as its own table's schema
RowsFitSchema ==
    /\ \A p \in DOMAIN StreamA : Len(StreamA[p]) = Len(FieldsA)
    /\ \A q \in DOMAIN StreamB : Len(StreamB[q]) = Len(FieldsB)

\* C26: once the schemas have matched, row comparison never meets an arity
\* violation: for every differ configuration (skipped_fields / only_fields
\* included), if diff_fields returns three empty partitions, diff_rows over
\* rows as long as their own table's schema never fails the equal-arity
\* check.
C26_NoArityViolation ==
    SchemasMatched /\ RowsFitSchema => gen.state # "failed"

(***************************************************************************)
(* The tags of one run of diff_rows (checked under Spec)                   *)
(***************************************************************************)
\* the record tells of a row that one stream alone still had
OneSided(rec) == rec[1] \in {"added", "deleted"}

\* C27: in a single run of diff_rows "added" and "deleted" records never
\* both occur, and once an "added" or "deleted" record has been yielded
\* every later record has the same tag (no "changed" record follows it):
\* an exhausted stream stays exhausted for the rest of the run.
C27_ExhaustedStaysExhausted ==
    /\ [](\A k \in DOMAIN yielded, l \in DOMAIN yielded :
             k < l /\ OneSided(yielded[k]) => yielded[l][1] = yielded[k][1])
    /\ [][gen.state = "running" =>
             \A t \in Tables :
                 ~HasNext(table[t], source[t]) => ~HasNext(table'[t], source'[t])]_vars

\* a run that yielded a "changed" record and then two "added" ones
C27_Witness ==
    /\ gen.state = "done"
    /\ Len(yielded) = 2
    /\ yielded[1][1] = "changed"
    /\ yielded[2][1] = "added"
    /\ gen.i = 3

====
